---------------------------- MODULE Spec2Model ----------------------------
(***************************************************************************)
(* A model of the tutorial game of src/project/tutorial/src/main.rs: the   *)
(* state record GameState, the engine-owned tables and input snapshots     *)
(* that game_logic reads and writes, and game_logic itself, one action per *)
(* block of the function in source order.                                  *)
(*                                                                         *)
(* Units: durations are in milliseconds, coordinates in pixels.  Floating  *)
(* point values are modelled by integers; every sampled duration is a      *)
(* multiple of 10 ms, so MOVEMENT_SPEED * delta is a whole number of       *)
(* pixels.                                                                 *)
(***************************************************************************)
EXTENDS Integers, Sequences, FiniteSets, TLC

VARIABLES
    pc,                \* position of the engine loop / of game_logic
    should_exit,       \* engine.should_exit
    keyboard_state,    \* engine.keyboard_state: [just_pressed, pressed]
    mouse_state,       \* engine.mouse_state: [just_pressed, location]
    delta,             \* engine.delta / engine.delta_f32, in ms
    hud_offset,        \* 5 * cos(3 * engine.time_since_startup_f64) of this frame
    window_dimensions, \* engine.window_dimensions
    collision_events,  \* engine.collision_events
    event,             \* the loop variable of the collision loop
    sprites,           \* engine.sprites: label -> sprite
    texts,             \* engine.texts: label -> text
    game_state         \* the GameState resource

vars == <<pc, should_exit, keyboard_state, mouse_state, delta, hud_offset,
          window_dimensions, collision_events, event, sprites, texts, game_state>>

engine_inputs == <<keyboard_state, mouse_state, delta, hud_offset, window_dimensions>>

-----------------------------------------------------------------------------
(* Bounds of the exploration *)

\* frames are explored while ferris_index cannot exceed this value
MaxFerris == 3
\* frames are explored while score cannot exceed this value
MaxScore == 2
\* longest collision-event queue handed to one frame
MaxEvents == 2

-----------------------------------------------------------------------------
(* Program constants *)

\* Timer::from_seconds(2.0, ..)
TimerDuration == 2000
MOVEMENT_SPEED == 100
\* gen_range(-550.0..550.0), gen_range(-325.0..325.0)
SpawnXLow == -550
SpawnXHigh == 550
SpawnYLow == -325
SpawnYHigh == 325
MsPerSecond == 1000

NoLocation == <<"None">>
\* the loop variable outside the collision loop
NoEvent == [state |-> "None", pair |-> <<"", "">>]

-----------------------------------------------------------------------------
(* Strings *)

\* str::starts_with
StartsWith(s, prefix) ==
    /\ Len(s) >= Len(prefix)
    /\ SubSeq(s, 1, Len(prefix)) = prefix

\* format!("ferris{}", n)
FerrisLabel(n) == "ferris" \o ToString(n)

\* format!("Score: {}", n)
ScoreText(n) == "Score: " \o ToString(n)

\* format!("High Score: {}", n)
HighScoreText(n) == "High Score: " \o ToString(n)

-----------------------------------------------------------------------------
(* Engine primitives used by game_logic *)

\* CollisionPair::either_starts_with, the neighbouring method
EitherStartsWith(pair, text) ==
    StartsWith(pair[1], text) \/ StartsWith(pair[2], text)

\* CollisionPair::one_starts_with: exactly one of the two labels starts with text
OneStartsWith(pair, text) ==
    LET a_matches == StartsWith(pair[1], text)
        b_matches == StartsWith(pair[2], text)
    IN  (a_matches /\ ~b_matches) \/ (~a_matches /\ b_matches)

\* Sprite::new(label, preset): a sprite with the default fields
NewSprite(preset) ==
    [preset |-> preset, translation |-> <<0, 0>>, rotation |-> 0,
     scale |-> 1, layer |-> 0, collision |-> FALSE]

\* engine.add_sprite(label, preset): insert (or overwrite) under label
AddSprite(table, label, sprite) ==
    [l \in DOMAIN table \cup {label} |-> IF l = label THEN sprite ELSE table[l]]

\* engine.sprites.remove(&label): no effect when the label is absent
RemoveSprite(table, label) ==
    [l \in DOMAIN table \ {label} |-> table[l]]

\* a tick that finishes only once the interval is exceeded
TickStrict(timer, d) ==
    LET elapsed == timer.elapsed + d
        times   == elapsed \div TimerDuration
    IN  IF elapsed > TimerDuration
        THEN [elapsed |-> elapsed - TimerDuration * times,
              finished |-> TRUE,
              times_finished_this_tick |-> times]
        ELSE [elapsed |-> elapsed,
              finished |-> FALSE,
              times_finished_this_tick |-> 0]

\* Timer::tick(delta) of a repeating timer that is not paused
Tick(timer, d) ==
    LET elapsed == timer.elapsed + d
        times   == elapsed \div TimerDuration
    IN  IF elapsed >= TimerDuration
        THEN [elapsed |-> elapsed - TimerDuration * times,
              finished |-> TRUE,
              times_finished_this_tick |-> times]
        ELSE [elapsed |-> elapsed,
              finished |-> FALSE,
              times_finished_this_tick |-> 0]

\* Timer::just_finished
JustFinished(timer) == timer.times_finished_this_tick > 0

\* KeyboardState::pressed_any
PressedAny(keys) == keys \cap keyboard_state.pressed # {}

\* thread_rng().gen_range(low..high): some value of the half-open range;
\* the samples are its two ends
GenRange(low, high) == {v \in {low, high - 1} : low <= v /\ v < high}

-----------------------------------------------------------------------------
(* The state after main() has set the game up and GameState::default() *)

Init ==
    /\ pc = "idle"
    /\ should_exit = FALSE
    /\ keyboard_state = [just_pressed |-> {}, pressed |-> {}]
    /\ mouse_state = [just_pressed |-> FALSE, location |-> NoLocation]
    /\ delta = 0
    /\ hud_offset = 0
    /\ window_dimensions = <<1280, 720>>
    /\ collision_events = <<>>
    /\ event = NoEvent
    /\ sprites = [l \in {"player"} |->
                    [NewSprite("RacingCarBlue") EXCEPT
                        !.translation = <<0, 0>>, !.rotation = 225,
                        !.scale = 1, !.collision = TRUE, !.layer = 0]]
    /\ texts = [l \in {"score", "high_score"} |->
                    IF l = "score"
                    THEN [value |-> "Score: 0", translation |-> <<520, 320>>]
                    ELSE [value |-> "High Score: 0", translation |-> <<-520, 320>>]]
    /\ game_state = [high_score |-> 0, score |-> 0, ferris_index |-> 0,
                     spawn_timer |-> [elapsed |-> 0, finished |-> FALSE,
                                      times_finished_this_tick |-> 0]]

-----------------------------------------------------------------------------
(* What the engine hands to one frame.  The values are samples of the      *)
(* engine's input space: each set holds the cases game_logic tells apart.  *)

QuietKeyboard == [just_pressed |-> {}, pressed |-> {}]
QuietMouse == [just_pressed |-> FALSE, location |-> NoLocation]

\* nothing; Q and R just pressed with Right and D held; R just pressed;
\* Q held from an earlier frame
KeyboardSamples ==
    { QuietKeyboard,
      [just_pressed |-> {"Q", "R"}, pressed |-> {"Q", "R", "Right", "D"}],
      [just_pressed |-> {"R"}, pressed |-> {"R"}],
      [just_pressed |-> {}, pressed |-> {"Q"}] }

\* a click with a pointer location, a click without one, no click
MouseSamples ==
    { [just_pressed |-> TRUE, location |-> <<100, -50>>],
      [just_pressed |-> TRUE, location |-> NoLocation],
      [just_pressed |-> FALSE, location |-> <<100, -50>>] }

\* a quarter of the timer's interval, and more than twice the interval
DeltaSamples == {500, 4500}

\* the extremes of 5 * cos(..)
OffsetSamples == {5}

WindowSamples == {<<1280, 720>>}

\* the targets in the table, oldest first
Targets(table) ==
    LET present == {i \in 0..MaxFerris : FerrisLabel(i) \in DOMAIN table}
        Sorted[rest \in SUBSET present] ==
            IF rest = {} THEN <<>>
            ELSE LET least == CHOOSE i \in rest : \A j \in rest : i <= j
                 IN  <<FerrisLabel(least)>> \o Sorted[rest \ {least}]
    IN  Sorted[present]

\* The pairs of labels an event may carry: CollisionPair is a pair of
\* Strings and collision_events a public Vec, so the type admits the
\* self-pair.  The samples involve the player and the two oldest targets
\* in the table: the player with itself, the player with a target on either
\* side, and the two targets with each other.
PairSamples(table) ==
    LET targets == Targets(table)
    IN  {<<"player", "player">>}
        \cup (IF Len(targets) >= 1
              THEN {<<"player", targets[1]>>, <<targets[1], "player">>}
              ELSE {})
        \cup (IF Len(targets) >= 2
              THEN {<<targets[2], "player">>, <<targets[1], targets[2]>>}
              ELSE {})

\* every sampled pair may begin to collide; the collision of the player
\* with the oldest target may also end
EventSamples(table) ==
    [state : {"Begin"}, pair : PairSamples(table)]
    \cup [state : {"End"},
          pair : {p \in PairSamples(table) : p[1] = "player" /\ p[2] # "player"}]

QueueSamples(table) ==
    UNION {[1..n -> EventSamples(table)] : n \in 0..MaxEvents}

\* the device inputs of a frame in which nothing happens, and of one in
\* which everything happens at once
QuietDevices == <<QuietKeyboard, [just_pressed |-> FALSE, location |-> <<100, -50>>], 500>>
BusyDevices ==
    <<[just_pressed |-> {"Q", "R"}, pressed |-> {"Q", "R", "Right", "D"}],
      [just_pressed |-> TRUE, location |-> <<100, -50>>], 4500>>

\* The frames explored: every combination of the device samples with an
\* empty queue, and every queue with the quiet and with the busy devices.
FrameSamples(table) ==
    ((KeyboardSamples \X MouseSamples \X DeltaSamples) \X {<<>>})
    \cup ({QuietDevices, BusyDevices} \X QueueSamples(table))

\* whether the mouse block of a frame with this mouse snapshot spawns
MouseSpawns(mouse) == mouse.just_pressed /\ mouse.location # NoLocation

\* the number of sprites a frame with these inputs spawns
SpawnsOf(mouse, d) ==
    (IF MouseSpawns(mouse) THEN 1 ELSE 0)
    + (IF JustFinished(Tick(game_state.spawn_timer, d)) THEN 1 ELSE 0)

-----------------------------------------------------------------------------
(* The engine loop: one frame's inputs are in place, game_logic is called. *)
(* The loop stops once should_exit is set.                                 *)

EngineFrame ==
    /\ pc = "idle"
    /\ ~should_exit
    /\ \E frame \in FrameSamples(sprites), offset \in OffsetSamples,
          window \in WindowSamples :
        LET kb == frame[1][1]
            mouse == frame[1][2]
            d == frame[1][3]
            queue == frame[2]
        IN  /\ game_state.ferris_index + SpawnsOf(mouse, d) <= MaxFerris
            /\ game_state.score + Len(queue) <= MaxScore
            /\ keyboard_state' = kb
            /\ mouse_state' = mouse
            /\ delta' = d
            /\ hud_offset' = offset
            /\ window_dimensions' = window
            /\ collision_events' = queue
    /\ pc' = "quit"
    /\ UNCHANGED <<should_exit, event, sprites, texts, game_state>>

-----------------------------------------------------------------------------
(* game_logic, block by block *)

\* a quit check that returns from game_logic once the flag is set
QuitCheckReturns ==
    /\ pc = "quit"
    /\ IF "Q" \in keyboard_state.just_pressed
       THEN should_exit' = TRUE /\ pc' = "idle"
       ELSE should_exit' = should_exit /\ pc' = "hud"
    /\ UNCHANGED <<engine_inputs, collision_events, event, sprites, texts, game_state>>

\* quit if Q is pressed
QuitCheck ==
    /\ pc = "quit"
    /\ should_exit' = IF "Q" \in keyboard_state.just_pressed THEN TRUE ELSE should_exit
    /\ pc' = "hud"
    /\ UNCHANGED <<engine_inputs, collision_events, event, sprites, texts, game_state>>

\* keep text near the edges of the screen
HudReposition ==
    /\ pc = "hud"
    /\ texts' = [texts EXCEPT
            !["score"].translation =
                <<window_dimensions[1] \div 2 - 80,
                  window_dimensions[2] \div 2 - 30 + hud_offset>>,
            !["high_score"].translation =
                <<-(window_dimensions[1] \div 2) + 110,
                  window_dimensions[2] \div 2 - 30>>]
    /\ pc' = "collisions"
    /\ UNCHANGED <<should_exit, engine_inputs, collision_events, event, sprites, game_state>>

\* a condition that looks at the state of the event only
QualifiesBeginOnly(e) ==
    e.state = "Begin"

\* whether the loop body acts on the event
Qualifies(e) ==
    e.state = "Begin" /\ OneStartsWith(e.pair, "player")

\* a removal that looks at the first label of the pair only
RemoveOthersFirstOnly(table, pair) ==
    IF pair[1] # "player" THEN RemoveSprite(table, pair[1]) ELSE table

\* a removal loop without the label != "player" check
RemoveBoth(table, pair) ==
    RemoveSprite(RemoveSprite(table, pair[1]), pair[2])

\* for label in [pair.0, pair.1] { if label != "player" { sprites.remove } }
RemoveOthers(table, pair) ==
    LET after0 == IF pair[1] # "player" THEN RemoveSprite(table, pair[1]) ELSE table
    IN  IF pair[2] # "player" THEN RemoveSprite(after0, pair[2]) ELSE after0

\* a scoring that leaves high_score alone
ScoredNoHighScore(gs) == [gs EXCEPT !.score = gs.score + 1]

\* score += 1, then the high-score update, on the state record
Scored(gs) ==
    LET score == gs.score + 1
    IN  [gs EXCEPT !.score = score,
                   !.high_score = IF score > gs.high_score THEN score ELSE gs.high_score]

\* text updates that rewrite the high-score text on every scoring event
ScoredTextsAlways(tx, gs) ==
    [tx EXCEPT !["score"].value = ScoreText(gs.score + 1),
               !["high_score"].value = HighScoreText(gs.score + 1)]

\* the two text updates that go with Scored
ScoredTexts(tx, gs) ==
    LET score == gs.score + 1
        withScore == [tx EXCEPT !["score"].value = ScoreText(score)]
    IN  IF score > gs.high_score
        THEN [withScore EXCEPT !["high_score"].value = HighScoreText(score)]
        ELSE withScore

\* a loop step that also drops the event after the one it examines
HandleCollisionSkipsNext ==
    /\ pc = "collisions"
    /\ collision_events # <<>>
    /\ event' = Head(collision_events)
    /\ collision_events' = IF Len(collision_events) > 1
                           THEN Tail(Tail(collision_events))
                           ELSE Tail(collision_events)
    /\ IF Qualifies(event')
       THEN /\ sprites' = RemoveOthers(sprites, event'.pair)
            /\ game_state' = Scored(game_state)
            /\ texts' = ScoredTexts(texts, game_state)
       ELSE UNCHANGED <<sprites, game_state, texts>>
    /\ UNCHANGED <<pc, should_exit, engine_inputs>>

\* a loop step of a frame whose reset block came before the loop: with R
\* just pressed the score counts up from 0
HandleCollisionResetFirst ==
    /\ pc = "collisions"
    /\ collision_events # <<>>
    /\ event' = Head(collision_events)
    /\ collision_events' = Tail(collision_events)
    /\ LET gs == IF "R" \in keyboard_state.just_pressed
                 THEN [game_state EXCEPT !.score = 0]
                 ELSE game_state
       IN  IF Qualifies(event')
           THEN /\ sprites' = RemoveOthers(sprites, event'.pair)
                /\ game_state' = Scored(gs)
                /\ texts' = ScoredTexts(texts, gs)
           ELSE UNCHANGED <<sprites, game_state, texts>>
    /\ UNCHANGED <<pc, should_exit, engine_inputs>>

\* a loop step that scores only while a label to remove is in the table
HandleCollisionPresentOnly ==
    /\ pc = "collisions"
    /\ collision_events # <<>>
    /\ event' = Head(collision_events)
    /\ collision_events' = Tail(collision_events)
    /\ IF Qualifies(event')
          /\ ({event'.pair[1], event'.pair[2]} \ {"player"}) \cap DOMAIN sprites # {}
       THEN /\ sprites' = RemoveOthers(sprites, event'.pair)
            /\ game_state' = Scored(game_state)
            /\ texts' = ScoredTexts(texts, game_state)
       ELSE UNCHANGED <<sprites, game_state, texts>>
    /\ UNCHANGED <<pc, should_exit, engine_inputs>>

\* one iteration of: for event in engine.collision_events.drain(..)
HandleCollision ==
    /\ pc = "collisions"
    /\ collision_events # <<>>
    /\ event' = Head(collision_events)
    /\ collision_events' = Tail(collision_events)
    /\ IF Qualifies(event')
       THEN /\ sprites' = RemoveOthers(sprites, event'.pair)
            /\ game_state' = Scored(game_state)
            /\ texts' = ScoredTexts(texts, game_state)
       ELSE UNCHANGED <<sprites, game_state, texts>>
    /\ UNCHANGED <<pc, should_exit, engine_inputs>>

\* a movement that adds the speed itself, whatever the frame's delta
MovedPerFrame(translation) ==
    LET step == MOVEMENT_SPEED
        y1 == IF PressedAny({"Up", "W"}) THEN translation[2] + step ELSE translation[2]
        y2 == IF PressedAny({"Down", "S"}) THEN y1 - step ELSE y1
        x1 == IF PressedAny({"Right", "D"}) THEN translation[1] + step ELSE translation[1]
        x2 == IF PressedAny({"Left", "A"}) THEN x1 - step ELSE x1
    IN  <<x2, y2>>

\* a movement whose opposing checks are chained with else
MovedExclusive(translation) ==
    LET step == (MOVEMENT_SPEED * delta) \div MsPerSecond
        y == IF PressedAny({"Up", "W"}) THEN translation[2] + step
             ELSE IF PressedAny({"Down", "S"}) THEN translation[2] - step
             ELSE translation[2]
        x == IF PressedAny({"Right", "D"}) THEN translation[1] + step
             ELSE IF PressedAny({"Left", "A"}) THEN translation[1] - step
             ELSE translation[1]
    IN  <<x, y>>

\* the player's translation after the four key-group checks
Moved(translation) ==
    LET step == (MOVEMENT_SPEED * delta) \div MsPerSecond
        y1 == IF PressedAny({"Up", "W"}) THEN translation[2] + step ELSE translation[2]
        y2 == IF PressedAny({"Down", "S"}) THEN y1 - step ELSE y1
        x1 == IF PressedAny({"Right", "D"}) THEN translation[1] + step ELSE translation[1]
        x2 == IF PressedAny({"Left", "A"}) THEN x1 - step ELSE x1
    IN  <<x2, y2>>

\* handle movement (the collision loop has ended)
HandleMovement ==
    /\ pc = "collisions"
    /\ collision_events = <<>>
    /\ event' = NoEvent
    /\ sprites' = [sprites EXCEPT !["player"].translation = Moved(@)]
    /\ pc' = "mouse"
    /\ UNCHANGED <<should_exit, engine_inputs, collision_events, texts, game_state>>

\* a spawned sprite whose collision flag is left at its default
FerrisNoCollision(translation) ==
    [NewSprite("RacingCarYellow") EXCEPT !.translation = translation]

\* the sprite a spawn puts in the table
Ferris(translation) ==
    [NewSprite("RacingCarYellow") EXCEPT !.translation = translation, !.collision = TRUE]

\* a mouse spawn that does not advance the counter
MouseSpawnNoIncrement ==
    /\ pc = "mouse"
    /\ IF mouse_state.just_pressed /\ mouse_state.location # NoLocation
       THEN sprites' = AddSprite(sprites, FerrisLabel(game_state.ferris_index),
                                 [NewSprite("RacingCarYellow") EXCEPT
                                    !.translation = mouse_state.location,
                                    !.collision = TRUE])
       ELSE UNCHANGED sprites
    /\ pc' = "timer"
    /\ UNCHANGED <<should_exit, engine_inputs, collision_events, event, texts, game_state>>

\* handle mouse input
MouseSpawn ==
    /\ pc = "mouse"
    /\ IF mouse_state.just_pressed /\ mouse_state.location # NoLocation
       THEN /\ sprites' = AddSprite(sprites, FerrisLabel(game_state.ferris_index),
                                    Ferris(mouse_state.location))
            /\ game_state' = [game_state EXCEPT !.ferris_index = @ + 1]
       ELSE UNCHANGED <<sprites, game_state>>
    /\ pc' = "timer"
    /\ UNCHANGED <<should_exit, engine_inputs, collision_events, event, texts>>

\* positions with the two ranges exchanged
RandomTranslationsSwapped ==
    GenRange(SpawnYLow, SpawnYHigh) \X GenRange(SpawnXLow, SpawnXHigh)

\* The positions the two gen_range calls can produce.  The samples are two
\* opposite corners of the field: they reach both ends of both ranges.
RandomTranslations ==
    {t \in GenRange(SpawnXLow, SpawnXHigh) \X GenRange(SpawnYLow, SpawnYHigh) :
        (t[1] = SpawnXLow) # (t[2] = SpawnYLow)}

\* if game_state.spawn_timer.tick(engine.delta).just_finished() { .. }
TimerSpawn ==
    /\ pc = "timer"
    /\ LET timer == Tick(game_state.spawn_timer, delta)
       IN  IF JustFinished(timer)
           THEN \E translation \in RandomTranslations :
                /\ sprites' = AddSprite(sprites, FerrisLabel(game_state.ferris_index),
                                        Ferris(translation))
                /\ game_state' = [game_state EXCEPT !.spawn_timer = timer,
                                                    !.ferris_index = @ + 1]
           ELSE /\ game_state' = [game_state EXCEPT !.spawn_timer = timer]
                /\ UNCHANGED sprites
    /\ pc' = "reset"
    /\ UNCHANGED <<should_exit, engine_inputs, collision_events, event, texts>>

\* a reset that clears high_score and its text as well
ResetScoreClearsHigh ==
    /\ pc = "reset"
    /\ IF "R" \in keyboard_state.just_pressed
       THEN /\ game_state' = [game_state EXCEPT !.score = 0, !.high_score = 0]
            /\ texts' = [texts EXCEPT !["score"].value = "Score: 0",
                                      !["high_score"].value = "High Score: 0"]
       ELSE UNCHANGED <<game_state, texts>>
    /\ pc' = "idle"
    /\ keyboard_state' = [just_pressed |-> {}, pressed |-> {}]
    /\ mouse_state' = [just_pressed |-> FALSE, location |-> NoLocation]
    /\ delta' = 0
    /\ hud_offset' = 0
    /\ UNCHANGED <<should_exit, window_dimensions, collision_events, event, sprites>>

\* a reset that clears the score and leaves its text as it was
ResetScoreKeepsText ==
    /\ pc = "reset"
    /\ IF "R" \in keyboard_state.just_pressed
       THEN /\ game_state' = [game_state EXCEPT !.score = 0]
            /\ UNCHANGED texts
       ELSE UNCHANGED <<game_state, texts>>
    /\ pc' = "idle"
    /\ keyboard_state' = QuietKeyboard
    /\ mouse_state' = QuietMouse
    /\ delta' = 0
    /\ hud_offset' = 0
    /\ UNCHANGED <<should_exit, window_dimensions, collision_events, event, sprites>>

\* Reset score, and the return to the engine loop.  Nothing reads the input
\* snapshots between two frames, and the next frame overwrites them: they
\* are put back to their quiet values here.
ResetScore ==
    /\ pc = "reset"
    /\ IF "R" \in keyboard_state.just_pressed
       THEN /\ game_state' = [game_state EXCEPT !.score = 0]
            /\ texts' = [texts EXCEPT !["score"].value = "Score: 0"]
       ELSE UNCHANGED <<game_state, texts>>
    /\ pc' = "idle"
    /\ keyboard_state' = QuietKeyboard
    /\ mouse_state' = QuietMouse
    /\ delta' = 0
    /\ hud_offset' = 0
    /\ UNCHANGED <<should_exit, window_dimensions, collision_events, event, sprites>>

Next ==
    \/ EngineFrame
    \/ QuitCheck
    \/ HudReposition
    \/ HandleCollision
    \/ HandleMovement
    \/ MouseSpawn
    \/ TimerSpawn
    \/ ResetScore

Spec == Init /\ [][Next]_vars

\* The engine calls game_logic once per frame until should_exit is set, and
\* game_logic runs to completion: no step that can be taken is put off
\* for ever.
FairSpec == Spec /\ WF_vars(Next)

-----------------------------------------------------------------------------
(* Frames with keys held down.  The engine keeps keyboard_state.pressed    *)
(* from frame to frame for as long as the keys stay down; MoveSpec follows *)
(* runs in which the keys that are down at startup stay down, there is no  *)
(* click and no collision, and the frames have different lengths.          *)

\* the sets of keys held down: none, each movement key alone, both keys of
\* a group, opposing groups, diagonals, a key that does not move, all keys
HeldKeySamples ==
    { {}, {"Up"}, {"W"}, {"Down"}, {"S"}, {"Right"}, {"D"}, {"Left"}, {"A"},
      {"Up", "W"}, {"Up", "Down"}, {"D", "A"}, {"Right", "D", "Up"},
      {"Left", "S"}, {"Up", "W", "Right", "Left"}, {"Q"},
      {"Up", "W", "Down", "S", "Right", "D", "Left", "A"} }

\* frame lengths below the timer's interval
HeldDeltaSamples == {500, 1000, 1500}

\* Init with some keys already down
MoveInit ==
    /\ pc = "idle"
    /\ should_exit = FALSE
    /\ keyboard_state \in [just_pressed : {{}}, pressed : HeldKeySamples]
    /\ mouse_state = [just_pressed |-> FALSE, location |-> NoLocation]
    /\ delta = 0
    /\ hud_offset = 0
    /\ window_dimensions = <<1280, 720>>
    /\ collision_events = <<>>
    /\ event = NoEvent
    /\ sprites = [l \in {"player"} |->
                    [NewSprite("RacingCarBlue") EXCEPT
                        !.translation = <<0, 0>>, !.rotation = 225,
                        !.scale = 1, !.collision = TRUE, !.layer = 0]]
    /\ texts = [l \in {"score", "high_score"} |->
                    IF l = "score"
                    THEN [value |-> "Score: 0", translation |-> <<520, 320>>]
                    ELSE [value |-> "High Score: 0", translation |-> <<-520, 320>>]]
    /\ game_state = [high_score |-> 0, score |-> 0, ferris_index |-> 0,
                     spawn_timer |-> [elapsed |-> 0, finished |-> FALSE,
                                      times_finished_this_tick |-> 0]]

\* one frame of such a run: the held keys are as they were
EngineFrameHeld ==
    /\ pc = "idle"
    /\ ~should_exit
    /\ \E d \in HeldDeltaSamples, offset \in OffsetSamples, window \in WindowSamples :
        /\ game_state.ferris_index + SpawnsOf(QuietMouse, d) <= MaxFerris
        /\ delta' = d
        /\ hud_offset' = offset
        /\ window_dimensions' = window
    /\ keyboard_state' = [just_pressed |-> {}, pressed |-> keyboard_state.pressed]
    /\ mouse_state' = QuietMouse
    /\ collision_events' = <<>>
    /\ pc' = "quit"
    /\ UNCHANGED <<should_exit, event, sprites, texts, game_state>>

\* Reset score, and the return to the engine loop with the keys still down
ResetScoreHeld ==
    /\ pc = "reset"
    /\ IF "R" \in keyboard_state.just_pressed
       THEN /\ game_state' = [game_state EXCEPT !.score = 0]
            /\ texts' = [texts EXCEPT !["score"].value = "Score: 0"]
       ELSE UNCHANGED <<game_state, texts>>
    /\ pc' = "idle"
    /\ keyboard_state' = [just_pressed |-> {}, pressed |-> keyboard_state.pressed]
    /\ mouse_state' = QuietMouse
    /\ delta' = 0
    /\ hud_offset' = 0
    /\ UNCHANGED <<should_exit, window_dimensions, collision_events, event, sprites>>

MoveNext ==
    \/ EngineFrameHeld
    \/ QuitCheck
    \/ HudReposition
    \/ HandleMovement
    \/ MouseSpawn
    \/ TimerSpawn
    \/ ResetScoreHeld

MoveSpec == MoveInit /\ [][MoveNext]_vars

-----------------------------------------------------------------------------
(* Properties *)

\* the next step of game_logic processes the head of the queue
AtEvent == pc = "collisions" /\ collision_events # <<>>

\* the pair names the player and one other label
PlayerAndOther(pair) ==
    \/ pair[1] = "player" /\ pair[2] # "player"
    \/ pair[2] = "player" /\ pair[1] # "player"

\* the labels of a pair
LabelsOf(pair) == {pair[1], pair[2]}

\* C1: processing a Begin event between the player and a different label
\* adds exactly 1 to score, writes "Score: {new score}" to the score text and
\* leaves the other label absent from the sprite table.
C1_CollisionScoresAndRemoves ==
    [][ ( /\ AtEvent
          /\ Head(collision_events).state = "Begin"
          /\ PlayerAndOther(Head(collision_events).pair) )
        => /\ game_state'.score = game_state.score + 1
           /\ texts'["score"].value = "Score: " \o ToString(game_state'.score)
           /\ \A l \in LabelsOf(Head(collision_events).pair) \ {"player"} :
                 l \notin DOMAIN sprites' ]_vars

\* C1 witness: the event just processed is Begin(ferris0, player), ferris0 is
\* gone, a later target is still there, and the score and its text are 1.
C1_Witness ==
    /\ pc = "collisions"
    /\ event = [state |-> "Begin", pair |-> <<"ferris0", "player">>]
    /\ "ferris0" \notin DOMAIN sprites
    /\ "ferris1" \in DOMAIN sprites
    /\ game_state.score = 1
    /\ texts["score"].value = "Score: 1"

\* the high-score value or the high-score text changes in this step
HighScoreChanges ==
    \/ game_state'.high_score # game_state.high_score
    \/ texts'["high_score"].value # texts["high_score"].value

\* C2: high_score and the high-score text change exactly in the steps of the
\* collision loop that raise score by 1 to a value above the previous
\* high_score; they then hold the new score; the reset step changes neither.
C2_HighScoreChangesIff ==
    [][ /\ HighScoreChanges
            <=> ( /\ pc = "collisions"
                  /\ game_state'.score = game_state.score + 1
                  /\ game_state'.score > game_state.high_score )
        /\ HighScoreChanges
            => /\ game_state'.high_score = game_state'.score
               /\ texts'["high_score"].value
                    = "High Score: " \o ToString(game_state'.high_score)
        /\ pc = "reset" => ~HighScoreChanges ]_vars

\* C2 witness: after a reset, a collision has just raised score to 1 while
\* high_score and its text stay at 2.
C2_Witness ==
    /\ pc = "collisions"
    /\ event # NoEvent
    /\ Qualifies(event)
    /\ game_state.score = 1
    /\ game_state.high_score = 2
    /\ texts["high_score"].value = "High Score: 2"

\* C3: the reset step of a frame in which R was just pressed ends the frame
\* with score = 0 and score text "Score: 0", and leaves high_score, the
\* high-score text, the spawn counter and the sprite table unchanged.
C3_ResetStep ==
    [][ (pc = "reset" /\ "R" \in keyboard_state.just_pressed)
        => /\ pc' = "idle"
           /\ game_state'.score = 0
           /\ texts'["score"].value = "Score: 0"
           /\ game_state'.high_score = game_state.high_score
           /\ texts'["high_score"] = texts["high_score"]
           /\ game_state'.ferris_index = game_state.ferris_index
           /\ sprites' = sprites ]_vars

\* C3 witness: a frame has ended with score 0 and text "Score: 0" although
\* high_score is 2, with a target in the table and the counter at 2.
C3_Witness ==
    /\ pc = "idle"
    /\ game_state.score = 0
    /\ texts["score"].value = "Score: 0"
    /\ game_state.high_score = 2
    /\ texts["high_score"].value = "High Score: 2"
    /\ game_state.ferris_index = 2
    /\ "ferris1" \in DOMAIN sprites

\* the labels "ferris{N}" generated so far are those with N below the counter
Generated == {"ferris" \o ToString(n) : n \in 0..(game_state.ferris_index - 1)}

\* C4: no two generated labels are equal.  The targets in the table carry
\* generated labels, labels of different N differ, the counter moves only
\* by +1, and a step adds a sprite exactly when it advances the counter: the
\* sprite then gets the label of the old counter value, which is not in the
\* table and was never generated.
C4_LabelsNeverReused ==
    /\ [](DOMAIN sprites \ {"player"} \subseteq Generated)
    /\ [](Cardinality(Generated) = game_state.ferris_index)
    /\ [][ LET N == game_state.ferris_index
               label == "ferris" \o ToString(N)
           IN  /\ game_state'.ferris_index \in {N, N + 1}
               /\ DOMAIN sprites' \ DOMAIN sprites # {}
                    => game_state'.ferris_index = N + 1
               /\ game_state'.ferris_index = N + 1
                    => /\ label \notin DOMAIN sprites
                       /\ label \notin Generated
                       /\ DOMAIN sprites' = DOMAIN sprites \cup {label} ]_vars

\* C4 witness: one frame has spawned by mouse and by timer after an earlier
\* target was removed: ferris0 is gone, ferris1 sits at the pointer location
\* and ferris2 is in the table.
C4_Witness ==
    /\ pc = "reset"
    /\ mouse_state.just_pressed
    /\ mouse_state.location # NoLocation
    /\ JustFinished(game_state.spawn_timer)
    /\ game_state.ferris_index = 3
    /\ "ferris0" \notin DOMAIN sprites
    /\ "ferris1" \in DOMAIN sprites
    /\ sprites["ferris1"].translation = mouse_state.location
    /\ "ferris2" \in DOMAIN sprites

\* the head of the queue is Begin("player", "player")
AtSelfPair ==
    /\ AtEvent
    /\ Head(collision_events) = [state |-> "Begin", pair |-> <<"player", "player">>]

\* C5 as stated: a Begin event whose pair is ("player", "player") adds 1 to
\* score and removes no entity.
C5_SelfPairScores ==
    [][ AtSelfPair
        => /\ game_state'.score = game_state.score + 1
           /\ sprites' = sprites ]_vars

\* C5 amended: a Begin event whose pair is ("player", "player") is skipped:
\* score, high_score, both texts and the sprite table stay as they are.
C5_SelfPairSkipped ==
    [][ AtSelfPair
        => /\ game_state' = game_state
           /\ texts' = texts
           /\ sprites' = sprites ]_vars

\* C5 witness: the event just processed is Begin("player", "player"), and
\* nothing has ever been scored.
C5_Witness ==
    /\ pc = "collisions"
    /\ event = [state |-> "Begin", pair |-> <<"player", "player">>]
    /\ game_state.score = 0
    /\ game_state.high_score = 0
    /\ texts["score"].value = "Score: 0"

\* C6: high_score >= score after every step of game_logic, so after every
\* score increase and at every frame boundary.
C6_HighScoreAtLeastScore == game_state.high_score >= game_state.score

\* C6 witness: a frame boundary after scoring twice, a reset and one more
\* scoring.
C6_Witness ==
    /\ pc = "idle"
    /\ game_state.high_score = 2
    /\ game_state.score = 1

\* 1 when a key of plus is held, minus 1 when a key of minus is held
Axis(plus, minus) ==
    (IF plus \cap keyboard_state.pressed # {} THEN 1 ELSE 0)
    - (IF minus \cap keyboard_state.pressed # {} THEN 1 ELSE 0)

\* what each block after the quit check does to the state it is about
BlockPerformed ==
    /\ pc = "hud" => pc' = "collisions"
    /\ ( /\ AtEvent
         /\ Head(collision_events).state = "Begin"
         /\ PlayerAndOther(Head(collision_events).pair) )
        => /\ game_state'.score = game_state.score + 1
           /\ collision_events' = Tail(collision_events)
    /\ (pc = "collisions" /\ collision_events = <<>>)
        => /\ pc' = "mouse"
           /\ sprites'["player"].translation[1] = sprites["player"].translation[1]
                + Axis({"Right", "D"}, {"Left", "A"}) * ((100 * delta) \div 1000)
           /\ sprites'["player"].translation[2] = sprites["player"].translation[2]
                + Axis({"Up", "W"}, {"Down", "S"}) * ((100 * delta) \div 1000)
    /\ pc = "mouse"
        => /\ pc' = "timer"
           /\ (mouse_state.just_pressed /\ mouse_state.location # NoLocation)
                => game_state'.ferris_index = game_state.ferris_index + 1
    /\ pc = "timer"
        => /\ pc' = "reset"
           /\ game_state.spawn_timer.elapsed + delta >= 2000
                => game_state'.ferris_index = game_state.ferris_index + 1
    /\ pc = "reset"
        => /\ pc' = "idle"
           /\ "R" \in keyboard_state.just_pressed => game_state'.score = 0

\* C7: should_exit becomes true exactly in the quit check of a frame in which
\* Q was just pressed and is changed nowhere else; the quit check always goes
\* on to the next block, and with the flag set every later block of the frame
\* is still performed.
C7_QuitFlagOnly ==
    [][ /\ should_exit'
            = (should_exit \/ (pc = "quit" /\ "Q" \in keyboard_state.just_pressed))
        /\ pc = "quit" => pc' = "hud"
        /\ (should_exit /\ pc # "idle") => BlockPerformed ]_vars

\* C7 witness: the last block of a frame with Q and R just pressed is about
\* to run with the flag set, after that frame's movement (4.5 s to the
\* right), mouse spawn and timer spawn, with a score from a collision.
C7_Witness ==
    /\ pc = "reset"
    /\ should_exit
    /\ {"Q", "R"} \subseteq keyboard_state.just_pressed
    /\ sprites["player"].translation = <<450, 0>>
    /\ MouseSpawns(mouse_state)
    /\ JustFinished(game_state.spawn_timer)
    /\ game_state.ferris_index = 3
    /\ "ferris0" \notin DOMAIN sprites
    /\ game_state.score = 1

\* C8: the mouse block of a frame with the left button just pressed and a
\* pointer location adds exactly one sprite, labelled "ferris{N}" for the
\* counter value N before the block, at that location with collision
\* enabled, and makes the counter N + 1; otherwise it adds no sprite and
\* leaves the counter unchanged.
C8_MouseSpawn ==
    [][ pc = "mouse"
        => LET N == game_state.ferris_index
               label == "ferris" \o ToString(N)
           IN  IF mouse_state.just_pressed /\ mouse_state.location # NoLocation
               THEN /\ label \notin DOMAIN sprites
                    /\ DOMAIN sprites' = DOMAIN sprites \cup {label}
                    /\ \A l \in DOMAIN sprites : sprites'[l] = sprites[l]
                    /\ sprites'[label].translation = mouse_state.location
                    /\ sprites'[label].collision = TRUE
                    /\ game_state'.ferris_index = N + 1
               ELSE /\ sprites' = sprites
                    /\ game_state'.ferris_index = N ]_vars

\* C8 witness: the mouse block has just put ferris1 at the pointer location.
C8_Witness ==
    /\ pc = "timer"
    /\ mouse_state.just_pressed
    /\ mouse_state.location = <<100, -50>>
    /\ game_state.ferris_index = 2
    /\ "ferris1" \in DOMAIN sprites
    /\ sprites["ferris1"].translation = <<100, -50>>
    /\ sprites["ferris1"].collision

\* the time the spawn timer has accumulated once this frame's delta is added
Accumulated == game_state.spawn_timer.elapsed + delta

\* further frames can be explored: the loop has not been told to stop and
\* the counter is below the bound of the exploration
CanGoOn == ~should_exit /\ game_state.ferris_index < MaxFerris

\* C9: the timer block, the only place that touches the timer, adds the frame
\* delta to it; it spawns exactly when the accumulated time reaches 2.0 s,
\* so in the very frame that brings the sum of the deltas to 2.0 s and in no
\* frame before; it spawns one target whatever the overshoot, and the timer
\* keeps the remainder, below 2.0 s, to accumulate again.
C9_TimerSpawn ==
    /\ [][ /\ pc # "timer" => game_state'.spawn_timer = game_state.spawn_timer
           /\ pc = "timer"
                => /\ (Accumulated >= 2000) <=> (sprites' # sprites)
                   /\ (Accumulated >= 2000)
                        <=> (game_state'.ferris_index = game_state.ferris_index + 1)
                   /\ (Accumulated < 2000)
                        => game_state'.ferris_index = game_state.ferris_index
                   /\ Cardinality(DOMAIN sprites' \ DOMAIN sprites) <= 1
                   /\ game_state'.spawn_timer.elapsed = Accumulated % 2000 ]_vars
    /\ [](game_state.spawn_timer.elapsed < 2000)

\* C9, read as a progress property under FairSpec: from every frame boundary
\* a timer spawn follows, unless the loop is told to stop or the counter
\* meets the bound of the exploration first.
C9_SpawnEventually ==
    [](pc = "idle" /\ CanGoOn
        => <>( \/ pc = "reset" /\ game_state.spawn_timer.times_finished_this_tick > 0
               \/ ~CanGoOn ))

\* C9 witness: four frames of 0.5 s have passed; the timer block of the
\* fourth has just spawned ferris0 and the timer is back at 0.
C9_Witness ==
    /\ pc = "reset"
    /\ delta = 500
    /\ game_state.spawn_timer.elapsed = 0
    /\ game_state.spawn_timer.times_finished_this_tick = 1
    /\ game_state.ferris_index = 1
    /\ "ferris0" \in DOMAIN sprites

\* C10: the sprite the timer block adds has collision enabled and a position
\* with -550 <= x <= 550 and -325 <= y <= 325.
C10_TimerSpawnInField ==
    [][ (pc = "timer" /\ sprites' # sprites)
        => LET label == "ferris" \o ToString(game_state.ferris_index)
           IN  /\ label \in DOMAIN sprites'
               /\ sprites'[label].collision = TRUE
               /\ -550 <= sprites'[label].translation[1]
               /\ sprites'[label].translation[1] <= 550
               /\ -325 <= sprites'[label].translation[2]
               /\ sprites'[label].translation[2] <= 325 ]_vars

\* C10 witness: the timer block has just spawned ferris0, with collision
\* enabled, at the right-hand bottom corner of the field.
C10_Witness ==
    /\ pc = "reset"
    /\ game_state.spawn_timer.times_finished_this_tick > 0
    /\ ~MouseSpawns(mouse_state)
    /\ game_state.ferris_index = 1
    /\ sprites["ferris0"].collision
    /\ sprites["ferris0"].translation = <<549, -325>>

\* In MoveSpec every sprite but the player comes from the timer and no tick
\* crosses the interval twice, so the time since startup is the counter
\* times the interval plus what the timer holds.
TimeSinceStartup ==
    TimerDuration * game_state.ferris_index + game_state.spawn_timer.elapsed

\* 1 when one of the two keys is held, else 0
Held(k1, k2) ==
    IF k1 \in keyboard_state.pressed \/ k2 \in keyboard_state.pressed THEN 1 ELSE 0

\* C11: with the same keys held throughout, the player's displacement after
\* total time T is 100 * T (T in seconds) along each axis, counted once per
\* held group, however T was sliced into frames of 0.5, 1 and 1.5 s.
C11_FrameRateIndependent ==
    pc = "idle"
    => sprites["player"].translation
        = << (Held("Right", "D") - Held("Left", "A")) * ((100 * TimeSinceStartup) \div 1000),
             (Held("Up", "W") - Held("Down", "S")) * ((100 * TimeSinceStartup) \div 1000) >>

\* C11 witness: 3 s after startup, of which the last frame took 1.5 s, with
\* Right, D and Up held: the player is at (300, 300).
C11_Witness ==
    /\ pc = "reset"
    /\ delta = 1500
    /\ keyboard_state.pressed = {"Right", "D", "Up"}
    /\ game_state.ferris_index = 1
    /\ game_state.spawn_timer.elapsed = 1000
    /\ sprites["player"].translation = <<300, 300>>

\* C12: the movement block changes y by speed * delta * ([Up or W held] -
\* [Down or S held]) and x by speed * delta * ([Right or D held] - [Left or
\* A held]): the groups act independently, opposing groups cancel, and two
\* keys of one group count once.
C12_KeyGroupsIndependent ==
    [][ (pc = "collisions" /\ collision_events = <<>>)
        => LET step == (100 * delta) \div 1000
           IN  /\ sprites'["player"].translation[1]
                    = sprites["player"].translation[1]
                      + step * (Held("Right", "D") - Held("Left", "A"))
               /\ sprites'["player"].translation[2]
                    = sprites["player"].translation[2]
                      + step * (Held("Up", "W") - Held("Down", "S")) ]_vars

\* C12 witness: the movement block of a first frame of 0.5 s has run with Up,
\* W, Right and Left held: y has moved by one step of 50, x not at all.
C12_Witness ==
    /\ pc = "mouse"
    /\ delta = 500
    /\ keyboard_state.pressed = {"Up", "W", "Right", "Left"}
    /\ game_state.ferris_index = 0
    /\ game_state.spawn_timer.elapsed = 0
    /\ sprites["player"].translation = <<0, 50>>

\* C13: a call of game_logic drains the whole queue.  Each step of the loop
\* examines the head of the queue and takes exactly that event off; the
\* blocks after the loop start only when the queue is empty and it stays
\* empty to the end of the frame; the queue changes in no other way than by
\* the loop taking its head or the engine filling it, empty, before a call.
C13_QueueDrained ==
    /\ [](pc \in {"mouse", "timer", "reset", "idle"} => collision_events = <<>>)
    /\ [][ /\ AtEvent => /\ event' = Head(collision_events)
                         /\ collision_events' = Tail(collision_events)
                         /\ pc' = "collisions"
           /\ (pc = "collisions" /\ pc' # "collisions") => collision_events = <<>>
           /\ collision_events' # collision_events
                => \/ AtEvent
                   \/ pc = "idle" /\ collision_events = <<>> ]_vars

\* C13 witness: the loop has just taken the last event of a queue of two, an
\* End on ferris0 that followed the Begin which removed ferris0 (the only
\* target ever spawned) in the same frame; the queue is empty.
C13_Witness ==
    /\ pc = "collisions"
    /\ collision_events = <<>>
    /\ event = [state |-> "End", pair |-> <<"player", "ferris0">>]
    /\ game_state.ferris_index = 1
    /\ "ferris0" \notin DOMAIN sprites
    /\ game_state.score = 1

\* C14: in every state the sprite table contains "player" and the text
\* table contains "score" and "high_score".
C14_WellKnownEntitiesKept ==
    /\ "player" \in DOMAIN sprites
    /\ {"score", "high_score"} \subseteq DOMAIN texts

\* C14 witness: a frame has ended after two collisions with the player have
\* removed both targets spawned so far: the table holds the player alone.
C14_Witness ==
    /\ pc = "idle"
    /\ game_state.ferris_index = 2
    /\ game_state.high_score = 2
    /\ DOMAIN sprites = {"player"}
    /\ DOMAIN texts = {"score", "high_score"}

\* C15: at startup and at the end of every frame the score text is
\* "Score: {score}" and the high-score text is "High Score: {high_score}".
C15_HudTextConsistent ==
    pc = "idle"
    => /\ texts["score"].value = "Score: " \o ToString(game_state.score)
       /\ texts["high_score"].value
            = "High Score: " \o ToString(game_state.high_score)

\* C15 witness: a frame has ended with score 1 below high_score 2 (a reset
\* and a later collision lie behind), and the texts read "Score: 1" and
\* "High Score: 2".
C15_Witness ==
    /\ pc = "idle"
    /\ game_state.score = 1
    /\ game_state.high_score = 2
    /\ texts["score"].value = "Score: 1"
    /\ texts["high_score"].value = "High Score: 2"

\* C16: a step of the loop on an event whose state is End, or whose pair
\* has no member "player", takes the event off the queue and changes neither
\* score, high_score and the rest of the game state, nor the texts, nor the
\* sprite table: a Begin between two targets removes neither of them.
C16_OtherEventsNoEffect ==
    [][ ( /\ AtEvent
          /\ \/ Head(collision_events).state = "End"
             \/ "player" \notin LabelsOf(Head(collision_events).pair) )
        => /\ collision_events' = Tail(collision_events)
           /\ game_state' = game_state
           /\ texts' = texts
           /\ sprites' = sprites ]_vars

\* C16 witness: the loop has just taken Begin(ferris0, ferris1) off the queue
\* and both targets are in the table, with score and high_score still 0.
C16_Witness ==
    /\ pc = "collisions"
    /\ event = [state |-> "Begin", pair |-> <<"ferris0", "ferris1">>]
    /\ {"ferris0", "ferris1"} \subseteq DOMAIN sprites
    /\ game_state.score = 0
    /\ game_state.high_score = 0
    /\ texts["score"].value = "Score: 0"

\* the number of qualifying events still in the queue
QualifyingLeft ==
    Cardinality({i \in 1..Len(collision_events) : Qualifies(collision_events[i])})

\* what high_score is due to be once the queue is drained: the larger of
\* high_score and score + the qualifying events left
HighScoreDue ==
    IF game_state.score + QualifyingLeft > game_state.high_score
    THEN game_state.score + QualifyingLeft
    ELSE game_state.high_score

\* C17: scoring comes before the reset.  When a call starts, HighScoreDue is
\* max(old high_score, old score + k); no block of the call changes it, the
\* reset included; the reset block starts only after the loop, with the queue
\* empty and so high_score = HighScoreDue; with R just pressed it sets score
\* to 0 and the score text to "Score: 0" and leaves high_score and its text,
\* which is "High Score: {high_score}".
C17_ScoringBeforeReset ==
    /\ [][ pc # "idle" => HighScoreDue' = HighScoreDue ]_vars
    /\ [][ pc' = "reset" => pc \in {"collisions", "mouse", "timer"} ]_vars
    /\ [](pc = "reset"
            => /\ collision_events = <<>>
               /\ game_state.high_score = HighScoreDue
               /\ texts["high_score"].value
                    = "High Score: " \o ToString(game_state.high_score))
    /\ [][ (pc = "reset" /\ "R" \in keyboard_state.just_pressed)
            => /\ pc' = "idle"
               /\ game_state'.score = 0
               /\ texts'["score"].value = "Score: 0"
               /\ game_state'.high_score = game_state.high_score
               /\ texts'["high_score"].value = texts["high_score"].value ]_vars

\* C17 read off whole frames: the frames sampled with both R just pressed
\* and a non-empty queue also have Q just pressed and are the last of their
\* run, so what holds at "idle" from then on is how such a frame ended.
C17_FrameOutcome ==
    \A s \in 0..MaxScore, h \in 0..MaxScore, k \in 1..MaxEvents :
        []( ( /\ pc = "quit"
              /\ "R" \in keyboard_state.just_pressed
              /\ game_state.score = s
              /\ game_state.high_score = h
              /\ QualifyingLeft = k )
            => [](pc = "idle"
                    => /\ game_state.score = 0
                       /\ texts["score"].value = "Score: 0"
                       /\ game_state.high_score = (IF s + k > h THEN s + k ELSE h)
                       /\ texts["high_score"].value
                            = "High Score: " \o ToString(IF s + k > h THEN s + k ELSE h)) )

\* C17 witness: the second and last frame has ended.  It had Q and R just
\* pressed, Right held for 4.5 s, a click, and two Begin events of the player
\* with ferris0, the one target of the first frame: score is 0 with text
\* "Score: 0", and high_score and its text keep the 2 reached in the loop.
C17_Witness ==
    /\ pc = "idle"
    /\ should_exit
    /\ game_state.score = 0
    /\ texts["score"].value = "Score: 0"
    /\ game_state.high_score = 2
    /\ texts["high_score"].value = "High Score: 2"
    /\ game_state.ferris_index = 3
    /\ game_state.spawn_timer.elapsed = 1000
    /\ sprites["player"].translation = <<450, 0>>
    /\ "ferris0" \notin DOMAIN sprites
    /\ "ferris1" \in DOMAIN sprites
    /\ sprites["ferris1"].translation = <<100, -50>>
    /\ "ferris2" \in DOMAIN sprites

\* the events left in the queue that are Begin and have "player" in the pair
BeginWithPlayerLeft ==
    Cardinality({i \in 1..Len(collision_events) :
                    /\ collision_events[i].state = "Begin"
                    /\ "player" \in LabelsOf(collision_events[i].pair)})

\* the events left in the queue that are Begin and pair "player" with
\* another label
BeginPlayerAndOtherLeft ==
    Cardinality({i \in 1..Len(collision_events) :
                    /\ collision_events[i].state = "Begin"
                    /\ PlayerAndOther(collision_events[i].pair)})

\* a step of a call of game_logic other than a reset block that resets
NoResetStep ==
    /\ pc # "idle"
    /\ ~(pc = "reset" /\ "R" \in keyboard_state.just_pressed)

\* C18 as stated: counting every Begin event that involves the player, the
\* score of a frame without reset ends at the old score plus that count:
\* score + the count of such events still queued stays what it was when
\* the call started.
C18_EveryPlayerEventCounts ==
    [][ NoResetStep
        => game_state'.score + BeginWithPlayerLeft'
            = game_state.score + BeginWithPlayerLeft ]_vars

\* C18 amended: the events that count are the Begin events that pair
\* "player" with another label.  Through a call without reset, score + the
\* number of such events still queued stays what it was at the start, and
\* the queue is empty after the loop, so score ends at the old score + their
\* number.  Each such event adds exactly 1 whether or not the other label is
\* in the table, and takes the other label out of the table if it is there;
\* every other step of the loop leaves score alone.
C18_ScorePerQualifyingEvent ==
    /\ [][ NoResetStep
            => game_state'.score + BeginPlayerAndOtherLeft'
                = game_state.score + BeginPlayerAndOtherLeft ]_vars
    /\ [](pc \in {"mouse", "timer", "reset"} => BeginPlayerAndOtherLeft = 0)
    /\ [][ AtEvent
            => LET e == Head(collision_events)
                   others == LabelsOf(e.pair) \ {"player"}
               IN  IF e.state = "Begin" /\ PlayerAndOther(e.pair)
                   THEN /\ game_state'.score = game_state.score + 1
                        /\ sprites' = [l \in DOMAIN sprites \ others |-> sprites[l]]
                        /\ others \cap DOMAIN sprites = {} => sprites' = sprites
                   ELSE game_state'.score = game_state.score ]_vars

\* C18 witness: in a frame without R the loop has taken the second of two
\* Begin events of the player with ferris0, the only target spawned so far:
\* ferris0 went with the first, and score is 2.
C18_Witness ==
    /\ pc = "collisions"
    /\ collision_events = <<>>
    /\ "R" \notin keyboard_state.just_pressed
    /\ event = [state |-> "Begin", pair |-> <<"ferris0", "player">>]
    /\ game_state.ferris_index = 1
    /\ DOMAIN sprites = {"player"}
    /\ game_state.score = 2
    /\ texts["score"].value = "Score: 2"

=============================================================================
